---- MODULE Spec2Model ----
(***************************************************************************)
(* A model of bot.py: the configuration codec (ConfigurationDecoder), the  *)
(* ConfigurationService (current Configuration, server rotation, per-      *)
(* channel ChannelState) and the policy-facing handlers of Client.         *)
(*                                                                         *)
(* Strings that the program splits, concatenates or glob-matches           *)
(* (hostmasks, masks, nicknames, channel names, CTCP messages) are         *)
(* sequences of one-character strings.  Strings that are only stored and   *)
(* compared (user names, server hostnames, classes, JSON keys) are TLA+    *)
(* strings.                                                                *)
(***************************************************************************)
EXTENDS Integers, Sequences, FiniteSets, TLC

VARIABLES
    phase,          \* "exited" | "constructed" | "crashed" | "connecting" | "online"
    config,         \* ConfigurationService.config
    currentServer,  \* ConfigurationService.currentServer
    channelStates,  \* ConfigurationService.channelStates: channel name -> ChannelState
    out,            \* outbound commands issued by the last operation
    printed,        \* number of lines the last operation wrote to stdout
    raised,         \* the last operation ended in an uncaught exception
    ev,             \* the last operation and its inputs
    joinedG,        \* history: channels the bot is in on the current connection
    grantedG,       \* history: the channels with a state for which a grant of 'o'
                    \*          to the bot was received on the current connection,
                    \*          since the state was made
    lastO,          \* history: per channel, last 'o' change for the bot since its join
    loadedDoc,      \* history: index of the document the current Configuration came from
    loadedServers,  \* history: server sequence as decoded from that document
    calls,          \* history: nextServer() calls since that document was loaded
    dPhase,         \* codec specification: "idle" | "input" | "decoded" | "encoded" | "back"
    dDoc,           \* codec specification: the document handed to decode
    dCfg,           \* codec specification: the Configuration decode returned
    dEnc,           \* codec specification: the document encode made of dCfg
    dBack,          \* codec specification: the Configuration decoded from dEnc
    mPhase,         \* matching specification: "idle" | "input" | "matched"
    mPat,           \* matching specification: the mask of a User
    mName,          \* matching specification: the string handed to User.match
    mRes            \* matching specification: what User.match returned

vars == <<phase, config, currentServer, channelStates, out, printed, raised, ev,
          joinedG, grantedG, lastO, loadedDoc, loadedServers, calls, dPhase, dDoc, dCfg,
          dEnc, dBack, mPhase, mPat, mName, mRes>>

botVars == <<phase, config, currentServer, channelStates, out, printed, raised, ev,
             joinedG, grantedG, lastO, loadedDoc, loadedServers, calls>>

codecVars == <<dPhase, dDoc, dCfg, dEnc, dBack>>

matchVars == <<mPhase, mPat, mName, mRes>>

(***************************************************************************)
(* Bounds of the model.                                                    *)
(***************************************************************************)
\* total number of server, user and channel entries of a generated document
MaxEntries == 3
\* nextServer() calls followed after one load
MaxCalls == 9
\* length of a generated mask
MaxPat == 3
\* length of a generated string matched against a mask
MaxName == 2

(***************************************************************************)
(* str.split(sep) with an explicit separator.                              *)
(***************************************************************************)
RECURSIVE split(_, _)
split(s, sep) ==
    IF \A i \in 1..Len(s) : s[i] # sep
    THEN <<s>>
    ELSE LET i == CHOOSE k \in 1..Len(s) : s[k] = sep /\ \A j \in 1..(k-1) : s[j] # sep
         IN  <<SubSeq(s, 1, i-1)>> \o split(SubSeq(s, i+1, Len(s)), sep)

(***************************************************************************)
(* Hostmask.  parse returns None (ok = FALSE) or a Hostmask.               *)
(***************************************************************************)
None == [ok |-> FALSE, nickname |-> <<>>, username |-> <<>>, hostname |-> <<>>]

Hostmask(nickname, username, hostname) ==
    [ok |-> TRUE, nickname |-> nickname, username |-> username, hostname |-> hostname]

getHostmask(h) == h.nickname \o <<"!">> \o h.username \o <<"@">> \o h.hostname

parse(hostmask) ==
    LET tmp == split(hostmask, "@")
    IN  IF Len(tmp) # 2
        THEN None
        ELSE LET tmp2 == split(tmp[1], "!")
             IN  IF Len(tmp2) # 2
                 THEN None
                 ELSE Hostmask(tmp2[1], tmp2[2], tmp[2])

(***************************************************************************)
(* fnmatch(name, pat) of the standard library, as User.match calls it:     *)
(* '*' any run, '?' one character, '[seq]' / '[!seq]' a character class    *)
(* (ranges x-y by the order of Alphabet), a '[' with no closing ']' is     *)
(* literal; the whole name must match.                                     *)
(***************************************************************************)
Alphabet == <<"!", "#", "*", "-", "?", "@", "[", "]", "a", "b", "e", "m", "t", "u">>

Ord(c) == IF \E i \in 1..Len(Alphabet) : Alphabet[i] = c
          THEN CHOOSE i \in 1..Len(Alphabet) : Alphabet[i] = c
          ELSE 0

\* index of the ']' closing the class opened at pat[1] = "[", or 0
classEnd(pat) ==
    LET n  == Len(pat)
        j1 == IF 2 <= n /\ pat[2] = "!" THEN 3 ELSE 2
        j2 == IF j1 <= n /\ pat[j1] = "]" THEN j1 + 1 ELSE j1
        C  == {j \in j2..n : pat[j] = "]"}
    IN  IF C = {} THEN 0 ELSE CHOOSE j \in C : \A k \in C : j <= k

RECURSIVE classHas(_, _)
classHas(stuff, c) ==
    IF stuff = <<>> THEN FALSE
    ELSE IF Len(stuff) >= 3 /\ stuff[2] = "-"
         THEN (Ord(stuff[1]) <= Ord(c) /\ Ord(c) <= Ord(stuff[3]))
              \/ classHas(SubSeq(stuff, 4, Len(stuff)), c)
         ELSE stuff[1] = c \/ classHas(Tail(stuff), c)

inClass(stuff, c) ==
    IF stuff[1] = "!" THEN ~classHas(Tail(stuff), c) ELSE classHas(stuff, c)

RECURSIVE fnmatch(_, _)
fnmatch(name, pat) ==
    IF pat = <<>> THEN name = <<>>
    ELSE LET c == Head(pat)
         IN  IF c = "*"
             THEN \E k \in 0..Len(name) : fnmatch(SubSeq(name, k+1, Len(name)), Tail(pat))
             ELSE IF c = "?"
             THEN name # <<>> /\ fnmatch(Tail(name), Tail(pat))
             ELSE IF c = "[" /\ classEnd(pat) # 0
             THEN name # <<>>
                  /\ inClass(SubSeq(pat, 2, classEnd(pat) - 1), Head(name))
                  /\ fnmatch(Tail(name), SubSeq(pat, classEnd(pat) + 1, Len(pat)))
             ELSE name # <<>> /\ Head(name) = c /\ fnmatch(Tail(name), Tail(pat))

(***************************************************************************)
(* Permission model: User, Server, Channel.                                *)
(***************************************************************************)
User(name, mask, userclass) == [name |-> name, mask |-> mask, userClass |-> userclass]

\* User.match(other)
match(user, other) == fnmatch(other, user.mask)

Server(hostname, port, ssl) == [hostname |-> hostname, port |-> port, ssl |-> ssl]

Channel(name, operators) == [name |-> name, operators |-> operators]

(***************************************************************************)
(* Configuration.  servers is the deque, front first; userRegistry the     *)
(* dict name -> User; channels the set of Channel objects, kept as a       *)
(* sequence because two Channel objects with equal fields are two members  *)
(* of the set (Channel defines no __eq__).                                 *)
(***************************************************************************)
Configuration ==
    [nickname |-> <<>>, username |-> "", realname |-> "",
     servers |-> <<>>, channels |-> <<>>, userRegistry |-> <<>>,
     valid |-> TRUE, errorMessages |-> <<>>, warningMessages |-> <<>>]

Msg(text, arg) == [text |-> text, arg |-> arg]

invalidate(c) == [c EXCEPT !.valid = FALSE]

appendErrorMessage(c, m) == [c EXCEPT !.errorMessages = Append(@, m)]

appendWarningMessage(c, m) == [c EXCEPT !.warningMessages = Append(@, m)]

hasUser(c, username) == username \in DOMAIN c.userRegistry

findUser(c, username) == c.userRegistry[username]

\* UserRegistry.registerUser: a later user of the same name replaces the earlier
addUser(c, user) == [c EXCEPT !.userRegistry = (user.name :> user) @@ @]

addServer(c, server) == [c EXCEPT !.servers = Append(@, server)]

addChannel(c, channel) == [c EXCEPT !.channels = Append(@, channel)]

getUsers(c) == {c.userRegistry[n] : n \in DOMAIN c.userRegistry}

(***************************************************************************)
(* ConfigurationDecoder.                                                   *)
(***************************************************************************)
required_keys == {"bot", "servers", "users", "channels"}

valid_user_classes == {"admin", "user"}

invalid_user_masks == {<<"*">>, <<"*", "@", "*">>, <<"*", "!", "*">>,
                       <<"*", "!", "*", "@", "*">>}

DefaultPort == 6667

\* truth value of a JSON scalar, given by its literal
truthy(v) == v \notin {"false", "0", "null", "\"\""}

\* the orders in which "for key in self.required_keys" may visit the set
KeyOrders ==
    {s \in [1..Cardinality(required_keys) -> required_keys] :
        \A k \in required_keys : \E i \in DOMAIN s : s[i] = k}

\* variant: the check stops at the first missing key
RECURSIVE checkRequiredKeysFirst(_, _, _)
checkRequiredKeysFirst(keys, obj, c) ==
    IF keys = <<>> THEN c
    ELSE IF Head(keys) \notin DOMAIN obj
    THEN invalidate(appendErrorMessage(c, Msg("Configuration file lacks key.", Head(keys))))
    ELSE checkRequiredKeysFirst(Tail(keys), obj, c)

RECURSIVE checkRequiredKeys(_, _, _)
checkRequiredKeys(keys, obj, c) ==
    IF keys = <<>> THEN c
    ELSE checkRequiredKeys(Tail(keys), obj,
            IF Head(keys) \notin DOMAIN obj
            THEN invalidate(appendErrorMessage(c,
                    Msg("Configuration file lacks key.", Head(keys))))
            ELSE c)

checkBotKeys(bot, c) ==
    LET c1 == IF "nickname" \notin DOMAIN bot
              THEN invalidate(appendErrorMessage(c, Msg("Missing nickname.", "")))
              ELSE c
        c2 == IF "username" \notin DOMAIN bot
              THEN invalidate(appendErrorMessage(c1, Msg("Missing username.", "")))
              ELSE c1
    IN  IF "realname" \notin DOMAIN bot
        THEN invalidate(appendErrorMessage(c2, Msg("Missing realname", "")))
        ELSE c2

\* variant: a server entry without hostname is an error
decodeServerStrict(s, c) ==
    IF "hostname" \notin DOMAIN s
    THEN invalidate(appendErrorMessage(c, Msg("Ignored server-entry due to lack of hostname.", "")))
    ELSE addServer(c, Server(s.hostname,
                             IF "port" \in DOMAIN s THEN s.port ELSE DefaultPort,
                             IF "ssl" \in DOMAIN s THEN truthy(s.ssl) ELSE FALSE))

decodeServer(s, c) ==
    IF "hostname" \notin DOMAIN s
    THEN appendWarningMessage(c, Msg("Ignored server-entry due to lack of hostname.", ""))
    ELSE LET port == IF "port" \in DOMAIN s THEN s.port ELSE DefaultPort
             ssl  == IF "ssl" \in DOMAIN s THEN truthy(s.ssl) ELSE FALSE
         IN  addServer(c, Server(s.hostname, port, ssl))

\* variant: only the mask "*" is refused
decodeUserStarOnly(u, c) ==
    IF "name" \notin DOMAIN u
    THEN appendWarningMessage(c, Msg("Ignored user-entry due to lack of name.", ""))
    ELSE IF "mask" \notin DOMAIN u
    THEN appendWarningMessage(c, Msg("Ignored user-entry due to lack of mask.", ""))
    ELSE IF u.mask = <<"*">>
    THEN appendWarningMessage(c, Msg("Insecure mask for user", u.name))
    ELSE IF "class" \in DOMAIN u /\ u.class \notin valid_user_classes
    THEN addUser(appendWarningMessage(c, Msg("Ignoring invalid class", u.class)),
                 User(u.name, u.mask, "user"))
    ELSE addUser(c, User(u.name, u.mask, IF "class" \in DOMAIN u THEN u.class ELSE "user"))

decodeUser(u, c) ==
    IF "name" \notin DOMAIN u
    THEN appendWarningMessage(c, Msg("Ignored user-entry due to lack of name.", ""))
    ELSE IF "mask" \notin DOMAIN u
    THEN appendWarningMessage(c, Msg("Ignored user-entry due to lack of mask.", ""))
    ELSE IF u.mask \in invalid_user_masks
    THEN appendWarningMessage(c, Msg("Insecure mask for user", u.name))
    ELSE IF "class" \in DOMAIN u /\ u.class \notin valid_user_classes
    THEN addUser(appendWarningMessage(c, Msg("Ignoring invalid class", u.class)),
                 User(u.name, u.mask, "user"))
    ELSE addUser(c, User(u.name, u.mask, IF "class" \in DOMAIN u THEN u.class ELSE "user"))

\* variant: a name the registry lacks becomes an operator without a mask
RECURSIVE decodeOperatorsLenient(_, _, _)
decodeOperatorsLenient(ops, c, operators) ==
    IF ops = <<>> THEN [config |-> c, operators |-> operators]
    ELSE IF ~hasUser(c, Head(ops))
    THEN decodeOperatorsLenient(Tail(ops),
            appendWarningMessage(c, Msg("Unknown operator", Head(ops))),
            operators \cup {User(Head(ops), <<>>, "user")})
    ELSE decodeOperatorsLenient(Tail(ops), c, operators \cup {findUser(c, Head(ops))})

\* the inner loop over c["operators"]: r = [warnings so far, operators so far]
RECURSIVE decodeOperators(_, _, _)
decodeOperators(ops, c, operators) ==
    IF ops = <<>> THEN [config |-> c, operators |-> operators]
    ELSE IF ~hasUser(c, Head(ops))
    THEN decodeOperators(Tail(ops),
            appendWarningMessage(c, Msg("Unknown operator", Head(ops))), operators)
    ELSE decodeOperators(Tail(ops), c, operators \cup {findUser(c, Head(ops))})

decodeChannel(ch, c) ==
    IF "name" \notin DOMAIN ch
    THEN appendWarningMessage(c, Msg("Ignored channel-entry due to lack of name.", ""))
    ELSE LET r == IF "operators" \in DOMAIN ch
                  THEN decodeOperators(ch.operators, c, {})
                  ELSE [config |-> c, operators |-> {}]
         IN  addChannel(r.config, Channel(ch.name, r.operators))

RECURSIVE decodeServers(_, _)
decodeServers(entries, c) ==
    IF entries = <<>> THEN c
    ELSE decodeServers(Tail(entries), decodeServer(Head(entries), c))

RECURSIVE decodeUsers(_, _)
decodeUsers(entries, c) ==
    IF entries = <<>> THEN c
    ELSE decodeUsers(Tail(entries), decodeUser(Head(entries), c))

RECURSIVE decodeChannels(_, _)
decodeChannels(entries, c) ==
    IF entries = <<>> THEN c
    ELSE decodeChannels(Tail(entries), decodeChannel(Head(entries), c))

\* decode(obj); keyOrder is the order in which required_keys is visited
decodeIn(obj, keyOrder) ==
    LET c1 == checkRequiredKeys(keyOrder, obj, Configuration)
    IN  IF ~c1.valid THEN c1
        ELSE LET c2 == checkBotKeys(obj.bot, c1)
             IN  IF ~c2.valid THEN c2
                 ELSE LET c3 == [c2 EXCEPT !.nickname = obj.bot.nickname,
                                           !.username = obj.bot.username,
                                           !.realname = obj.bot.realname]
                      IN  decodeChannels(obj.channels,
                            decodeUsers(obj.users,
                              decodeServers(obj.servers, c3)))

\* every Configuration decode(obj) may return
decode(obj) == {decodeIn(obj, keyOrder) : keyOrder \in KeyOrders}

(***************************************************************************)
(* ConfigurationEncoder.default.  The users (values of a dict), the        *)
(* channels and each channel's operators (sets) are written in the order   *)
(* the container yields them; JSON true and false are the literals "true"  *)
(* and "false".                                                            *)
(***************************************************************************)
\* the sequences that list the members of the set S once each
SeqsOf(S) ==
    {q \in [1..Cardinality(S) -> S] : \A x \in S : \E i \in DOMAIN q : q[i] = x}

encodeServer(s) ==
    [hostname |-> s.hostname, port |-> s.port, ssl |-> IF s.ssl THEN "true" ELSE "false"]

\* variant: the class of a user is not written
encodeUserNoClass(u) == [name |-> u.name, mask |-> u.mask]

encodeUser(u) == [name |-> u.name, mask |-> u.mask, class |-> u.userClass]

\* the entries a channel may be written as: its operators' names in any order
encodeChannel(ch) ==
    {[name |-> ch.name, operators |-> q] : q \in SeqsOf({o.name : o \in ch.operators})}

RECURSIVE encodeChannels(_)
encodeChannels(channels) ==
    IF channels = <<>> THEN {<<>>}
    ELSE {<<e>> \o rest : e \in encodeChannel(Head(channels)),
                          rest \in encodeChannels(Tail(channels))}

\* every document default(config) may return
encode(c) ==
    {[bot |-> [nickname |-> c.nickname, username |-> c.username,
               realname |-> c.realname],
      servers |-> [i \in DOMAIN c.servers |-> encodeServer(c.servers[i])],
      users |-> [i \in DOMAIN us |-> encodeUser(us[i])],
      channels |-> [i \in DOMAIN ch |-> ch[p[i]]]] :
        us \in SeqsOf(getUsers(c)),
        ch \in encodeChannels(c.channels),
        p \in {f \in [DOMAIN c.channels -> DOMAIN c.channels] :
                 \A i \in DOMAIN c.channels : \E j \in DOMAIN c.channels : f[j] = i}}

(***************************************************************************)
(* Documents.  A document is a JSON object: a function from its keys.      *)
(***************************************************************************)
Nick == <<"b">>
ChanA == <<"#", "a">>
ChanB == <<"#", "b">>
MaskAliceT == <<"a", "!", "*", "@", "t">>
MaskAnyT == <<"*", "!", "*", "@", "t">>
MaskAnyE == <<"*", "!", "*", "@", "e">>

BotKeys == {"nickname", "username", "realname"}

botObject(keys) ==
    [k \in keys |-> CASE k = "nickname" -> Nick
                      [] k = "username" -> "ircbot"
                      [] k = "realname" -> "IRC Bot"]

ServerEntries ==
    { [hostname |-> "A"],
      [hostname |-> "B", port |-> 6697, ssl |-> "true"],
      [hostname |-> "C", ssl |-> "0"],
      [port |-> 6697] }

UserEntries ==
    { [name |-> "alice", mask |-> MaskAliceT],
      [name |-> "alice", mask |-> MaskAnyT, class |-> "admin"],
      [name |-> "bob", mask |-> MaskAnyE, class |-> "root"],
      [name |-> "eve", mask |-> <<"*">>, class |-> "admin"],
      [name |-> "alice", mask |-> <<"*", "!", "*", "@", "*">>],
      [mask |-> MaskAnyE],
      [name |-> "carol"] }

ChannelEntries ==
    { [name |-> ChanA, operators |-> <<"alice">>],
      [name |-> ChanA, operators |-> <<"bob", "zed">>],
      [name |-> ChanB],
      [operators |-> <<"alice">>] }

mkDoc(present, botKeys, sv, us, ch) ==
    [k \in present |-> CASE k = "bot" -> botObject(botKeys)
                         [] k = "servers" -> sv
                         [] k = "users" -> us
                         [] k = "channels" -> ch]

Shapes ==
    {t \in (0..MaxEntries) \X (0..MaxEntries) \X (0..MaxEntries) :
        t[1] + t[2] + t[3] <= MaxEntries}

\* the sections a document of shape t = <<#servers, #users, #channels>> may have:
\* a section with entries is present
Presents(t) ==
    {p \in SUBSET required_keys :
        /\ (t[1] > 0 => "servers" \in p)
        /\ (t[2] > 0 => "users" \in p)
        /\ (t[3] > 0 => "channels" \in p)}

\* the "bot" objects a document with sections p may have (none without "bot")
BotKeySets(p) == IF "bot" \in p THEN SUBSET BotKeys ELSE {{}}

(***************************************************************************)
(* The policy documents the configuration file holds over time.            *)
(***************************************************************************)
NickAlice == <<"a">>
NickMallory == <<"m">>
PrefixSelf == <<"b", "!", "u", "@", "t">>
PrefixAlice == <<"a", "!", "u", "@", "t">>
PrefixMallory == <<"m", "!", "u", "@", "e">>
\* a server-sourced prefix: no '!' and no '@'
PrefixServer == <<"t">>

Docs ==
    << \* 1: alice and trusted both match a!u@t and are operators of #a;
       \*    mal is registered and operator nowhere; #b is not listed
       [bot |-> botObject(BotKeys),
        servers |-> <<[hostname |-> "A"],
                      [hostname |-> "B", port |-> 6697, ssl |-> "true"],
                      [hostname |-> "C", ssl |-> "0"]>>,
        users |-> <<[name |-> "alice", mask |-> MaskAliceT],
                    [name |-> "trusted", mask |-> MaskAnyT, class |-> "admin"],
                    [name |-> "mal", mask |-> MaskAnyE]>>,
        channels |-> <<[name |-> ChanA, operators |-> <<"alice", "trusted">>]>>],
       \* 2: another policy: alice is operator of #b, #a is not listed
       [bot |-> botObject(BotKeys),
        servers |-> <<[hostname |-> "A"],
                      [port |-> 6697],
                      [hostname |-> "B", port |-> 6697, ssl |-> "true"]>>,
        users |-> <<[name |-> "alice", mask |-> MaskAliceT],
                    [name |-> "eve", mask |-> <<"*">>]>>,
        channels |-> <<[name |-> ChanB, operators |-> <<"alice", "eve">>]>>],
       \* 3: bot.nickname is missing
       [bot |-> botObject({"username", "realname"}),
        servers |-> <<[hostname |-> "A"]>>,
        users |-> <<[name |-> "mal", mask |-> MaskAnyE]>>,
        channels |-> <<[name |-> ChanA, operators |-> <<"mal">>]>>],
       \* 4: two sections are missing
       [bot |-> botObject(BotKeys),
        servers |-> <<[hostname |-> "A"]>>],
       \* 5: #a listed twice, no server entry with a hostname
       [bot |-> botObject(BotKeys),
        servers |-> <<[port |-> 6697]>>,
        users |-> <<[name |-> "alice", mask |-> MaskAliceT]>>,
        channels |-> <<[name |-> ChanA, operators |-> <<"alice">>],
                       [name |-> ChanA, operators |-> <<>>]>>] >>

DocIds == DOMAIN Docs

(***************************************************************************)
(* ConfigurationLoader.load: decode of the file's content.  The set of     *)
(* Channel objects is then iterated in an order fixed by the objects'      *)
(* hashes: channels holds the set in one of its iteration orders.          *)
(***************************************************************************)
Orders(n) == {p \in [1..n -> 1..n] : \A i \in 1..n : \E j \in 1..n : p[j] = i}

load(d) ==
    UNION { {[c EXCEPT !.channels = [i \in DOMAIN c.channels |-> c.channels[p[i]]]] :
                p \in Orders(Len(c.channels))} : c \in decode(Docs[d]) }

\* load(d) for every document, computed once
Loads == [d \in DocIds |-> load(d)]

(***************************************************************************)
(* ConfigurationService.                                                   *)
(***************************************************************************)
NoServer == [none |-> TRUE]

NoChannel == [none |-> TRUE]

ChannelState(name) == [name |-> name, opped |-> FALSE]

\* variant: the candidate replaces the current Configuration unchecked
reloadUnchecked(current, candidate) == candidate

\* variant: the swap takes the candidate's fields but keeps the old channels
reloadKeepsChannels(current, candidate) ==
    IF ~candidate.valid THEN current
    ELSE [candidate EXCEPT !.channels = current.channels]

\* reload: the Configuration the service holds after loading candidate
reload(current, candidate) ==
    IF ~candidate.valid THEN current ELSE candidate

\* variant: the server returned is the head after the rotation
nextServerNewHead(c) ==
    IF c.servers = <<>>
    THEN [raised |-> TRUE, config |-> c, currentServer |-> NoServer]
    ELSE [raised |-> FALSE,
          config |-> [c EXCEPT !.servers = Append(Tail(@), Head(@))],
          currentServer |-> Head(Append(Tail(c.servers), Head(c.servers)))]

\* nextServer: popleft raises IndexError on an empty deque
nextServer(c) ==
    IF c.servers = <<>>
    THEN [raised |-> TRUE, config |-> c, currentServer |-> NoServer]
    ELSE [raised |-> FALSE,
          config |-> [c EXCEPT !.servers = Append(Tail(@), Head(@))],
          currentServer |-> Head(c.servers)]

\* getChannelState(channel) returns a ChannelState: not None
hasChannelState(states, channel) == channel \in DOMAIN states

joinedChannel(states, channel) ==
    (channel :> ChannelState(channel)) @@ states

\* variant: the state of the channel is kept
partedChannelKeeps(states, channel) == states

\* del self.channelStates[channel], for a channel that has a state
partedChannel(states, channel) ==
    [k \in DOMAIN states \ {channel} |-> states[k]]

\* Configuration.getChannel: the first Channel of that name the set yields
getChannel(c, channel) ==
    LET I == {i \in DOMAIN c.channels : c.channels[i].name = channel}
    IN  IF I = {} THEN NoChannel
        ELSE c.channels[CHOOSE i \in I : \A j \in I : i <= j]

\* UserRegistry.findMatches, through ConfigurationService.findMatches
findMatches(c, hostmask) ==
    {user \in getUsers(c) : match(user, getHostmask(hostmask))}

\* variant: every registered user is a candidate, as in findMatches
findOperatorCandidatesAll(c, hostmask, channel) ==
    {user \in getUsers(c) : match(user, getHostmask(hostmask))}

\* variant: for a channel the Configuration does not list, the registry decides
findOperatorCandidatesFallback(c, hostmask, channel) ==
    IF getChannel(c, channel) = NoChannel THEN findMatches(c, hostmask)
    ELSE {operator \in getChannel(c, channel).operators :
            match(operator, getHostmask(hostmask))}

\* findOperatorCandidates: the matching operators (a list in set order)
findOperatorCandidates(c, hostmask, channel) ==
    IF getChannel(c, channel) = NoChannel THEN {}
    ELSE {operator \in getChannel(c, channel).operators :
            match(operator, getHostmask(hostmask))}

(***************************************************************************)
(* Client.  Outbound commands are records; a handler's result holds what   *)
(* it issued and printed, the channel states it leaves, and whether it     *)
(* ended in an exception (which IRCClient.handleCommand logs).             *)
(***************************************************************************)
OpCmd(channel, nick) == [cmd |-> "MODE +o", channel |-> channel, nick |-> nick]

JoinCmd(channel) == [cmd |-> "JOIN", channel |-> channel, nick |-> <<>>]

NoticeCmd(nick, text, name, data) ==
    [cmd |-> "NOTICE", channel |-> <<>>, nick |-> nick,
     text |-> text, name |-> name, data |-> data]

\* None where a string is expected (a mode without parameter, a CTCP query without data)
NoArg == <<"None">>

Result(r, states, o, p) == [raised |-> r, channelStates |-> states, out |-> o, printed |-> p]

\* Client.nickname: the nickname of the current Configuration
nickname(c) == c.nickname

considerOpping(c, states, hostmask, channel) ==
    IF ~hasChannelState(states, channel) THEN Result(FALSE, states, <<>>, 0)
    ELSE IF ~states[channel].opped THEN Result(FALSE, states, <<>>, 0)
    ELSE LET matches == findOperatorCandidates(c, hostmask, channel)
         IN  Result(FALSE, states,
                    IF matches # {} THEN <<OpCmd(channel, hostmask.nickname)>> ELSE <<>>,
                    1 + Cardinality(matches))

joined(states, channel) == Result(FALSE, joinedChannel(states, channel), <<>>, 1)

irc_JOIN(c, states, prefix, channel) ==
    LET hostmask == parse(prefix)
    IN  IF ~hostmask.ok
        THEN Result(TRUE, states, <<>>, 0)      \* None.getNickname()
        ELSE IF hostmask.nickname = nickname(c)
        THEN joined(states, channel)
        ELSE LET r == considerOpping(c, states, hostmask, channel)
             IN  Result(FALSE, states, r.out, 1 + r.printed)

RECURSIVE considerEach(_, _, _, _)
considerEach(c, states, hostmask, channels) ==
    IF channels = <<>> THEN Result(FALSE, states, <<>>, 0)
    ELSE LET r    == considerOpping(c, states, hostmask, Head(channels))
             rest == considerEach(c, states, hostmask, Tail(channels))
         IN  Result(FALSE, states, r.out \o rest.out, r.printed + rest.printed)

\* variant: the target of the query is not looked at
ctcpQuery_OPAnyTarget(c, states, user, target, message) ==
    IF message = NoArg THEN Result(FALSE, states, <<>>, 0)
    ELSE IF ~parse(user).ok THEN Result(FALSE, states, <<>>, 0)
    ELSE LET r == considerEach(c, states, parse(user), split(message, " "))
         IN  Result(FALSE, states, r.out, 1 + r.printed)

ctcpQuery_OP(c, states, user, target, message) ==
    IF target # nickname(c) THEN Result(FALSE, states, <<>>, 0)
    ELSE IF message = NoArg THEN Result(FALSE, states, <<>>, 0)
    ELSE IF ~parse(user).ok THEN Result(FALSE, states, <<>>, 0)
    ELSE LET r == considerEach(c, states, parse(user), split(message, " "))
         IN  Result(FALSE, states, r.out, 1 + r.printed)

\* the notices about one user
whoamiUser(target, user) ==
    << NoticeCmd(target, "Username:", user.name, <<>>),
       NoticeCmd(target, "Hostmask:", user.name, user.mask),
       NoticeCmd(target, "Class:", user.userClass, <<>>) >>

RECURSIVE whoamiUsers(_, _)
whoamiUsers(target, users) ==
    IF users = <<>> THEN <<>>
    ELSE whoamiUser(target, Head(users)) \o whoamiUsers(target, Tail(users))

\* the notices cmd_whoami may send: the matches in the order the dict yields them
cmd_whoami(c, hostmask) ==
    IF findMatches(c, hostmask) = {}
    THEN {<<NoticeCmd(hostmask.nickname, "Unknown user", "", <<>>)>>}
    ELSE {whoamiUsers(hostmask.nickname, users) : users \in SeqsOf(findMatches(c, hostmask))}

Whoami == <<"w", "h", "o", "a", "m", "i">>

\* the results privmsg may have; cmd_whoami is the only cmd_ method of Client
privmsg(c, states, user, target, message) ==
    IF nickname(c) # target THEN {Result(FALSE, states, <<>>, 0)}
    ELSE IF ~parse(user).ok THEN {Result(FALSE, states, <<>>, 0)}
    ELSE IF split(message, " ")[1] = Whoami
    THEN {Result(FALSE, states, o, 2) : o \in cmd_whoami(c, parse(user))}
    ELSE {Result(FALSE, states,
                 <<NoticeCmd(parse(user).nickname, "Unknown Command:", "", message)>>, 1)}

kickedFrom(states, channel) ==
    IF ~hasChannelState(states, channel)
    THEN Result(TRUE, states, <<>>, 1)          \* KeyError in partedChannel
    ELSE Result(FALSE, partedChannel(states, channel), <<JoinCmd(channel)>>, 1)

userOpped(c, states, target, channel) ==
    IF nickname(c) = target /\ hasChannelState(states, channel)
    THEN [states EXCEPT ![channel].opped = TRUE]
    ELSE states

userDeopped(c, states, target, channel) ==
    IF nickname(c) = target /\ hasChannelState(states, channel)
    THEN [states EXCEPT ![channel].opped = FALSE]
    ELSE states

Min(a, b) == IF a <= b THEN a ELSE b

\* the loop over zip(modes, args), from pair i on
RECURSIVE pairedModes(_, _, _, _, _, _, _)
pairedModes(c, states, channel, added, modes, args, i) ==
    IF i > Min(Len(modes), Len(args)) THEN states
    ELSE pairedModes(c,
            IF modes[i] = "o"
            THEN IF added THEN userOpped(c, states, args[i], channel)
                          ELSE userDeopped(c, states, args[i], channel)
            ELSE states,
            channel, added, modes, args, i + 1)

\* "not args or not args[0]": no parameter, or a first one that is None or empty
firstArgMissing(args) == args = <<>> \/ args[1] = NoArg \/ args[1] = <<>>

modeChanged(c, states, channel, added, modes, args) ==
    IF ~firstArgMissing(args) /\ \E i \in DOMAIN args : args[i] = NoArg
    THEN Result(TRUE, states, <<>>, 0)          \* ' '.join(args) with a None in args
    ELSE Result(FALSE, pairedModes(c, states, channel, added, modes, args, 1), <<>>, 1)

RECURSIVE joinAll(_)
joinAll(channels) ==
    IF channels = <<>> THEN <<>>
    ELSE <<JoinCmd(Head(channels).name)>> \o joinAll(Tail(channels))

signedOn(c, states) == Result(FALSE, states, joinAll(c.channels), 1)

(***************************************************************************)
(* Inbound events.                                                         *)
(***************************************************************************)
Chans == {ChanA, ChanB}

JoinPrefixes == {PrefixSelf, PrefixAlice, PrefixMallory, PrefixServer}

PartPrefixes == {PrefixSelf, PrefixAlice}

KickNicks == {Nick, NickAlice}

\* <<modes, args>> of one modeChanged call: one entry of args per mode, None
\* for a mode that takes no parameter
ModeChanges ==
    { <<<<"o">>, <<Nick>>>>,
      <<<<"o">>, <<NickAlice>>>>,
      <<<<"v">>, <<Nick>>>>,
      <<<<"n", "o">>, <<NoArg, Nick>>>>,
      <<<<"o", "n">>, <<Nick, NoArg>>>> }

\* <<user, target, message>> of a CTCP OP query
CtcpQueries ==
    { <<PrefixAlice, Nick, ChanA>>,
      <<PrefixAlice, Nick, ChanA \o <<" ">> \o ChanB>>,
      <<PrefixAlice, Nick, <<>>>>,
      <<PrefixAlice, Nick, NoArg>>,
      <<PrefixAlice, ChanA, ChanA \o <<" ">> \o ChanB>>,
      <<PrefixMallory, Nick, ChanA \o <<" ">> \o ChanB>>,
      <<PrefixServer, Nick, ChanA>> }

\* <<user, target, message>> of a private message
PrivMsgs ==
    { <<PrefixAlice, Nick, Whoami>>,
      <<PrefixMallory, Nick, <<"o", "p">>>>,
      <<PrefixServer, Nick, Whoami>>,
      <<PrefixAlice, ChanA, Whoami>> }

Event == [kind |-> "", src |-> <<>>, chan |-> <<>>, target |-> <<>>, message |-> <<>>,
          added |-> FALSE, modes |-> <<>>, args |-> <<>>, doc |-> 0]

\* the event grants (added) or revokes 'o' for the nickname nick
touchesOp(modes, args, nick) == \E i \in DOMAIN modes : modes[i] = "o" /\ args[i] = nick

(***************************************************************************)
(* Init: the state after ConfigurationService.__init__ loaded the file; a  *)
(* process whose Configuration is invalid has printed the errors and       *)
(* exited.                                                                 *)
(***************************************************************************)
Init ==
    /\ \E d \in DocIds : \E c \in Loads[d] :
         /\ config = c
         /\ phase = IF c.valid THEN "constructed" ELSE "exited"
         /\ printed = Len(c.warningMessages)
                        + IF c.valid THEN 0 ELSE 1 + Len(c.errorMessages)
         /\ ev = [Event EXCEPT !.kind = "init", !.doc = d]
         /\ loadedDoc = d
         /\ loadedServers = c.servers
    /\ currentServer = NoServer
    /\ channelStates = <<>>
    /\ out = <<>>
    /\ raised = FALSE
    /\ joinedG = {}
    /\ grantedG = {}
    /\ lastO = <<>>
    /\ calls = 0
    /\ dPhase = "idle"
    /\ dDoc = <<>>
    /\ dCfg = Configuration
    /\ dEnc = <<>>
    /\ dBack = Configuration
    /\ mPhase = "idle"
    /\ mPat = <<>>
    /\ mName = <<>>
    /\ mRes = FALSE

Running == phase \in {"constructed", "connecting", "online"}

(***************************************************************************)
(* Operations of the service.                                              *)
(***************************************************************************)
\* variant: a successful reload forgets the channel states
ReloadForgets ==
    /\ Running
    /\ \E d \in DocIds : \E candidate \in Loads[d] :
         /\ config' = reload(config, candidate)
         /\ ev' = [Event EXCEPT !.kind = "reload", !.doc = d]
         /\ loadedDoc' = IF candidate.valid THEN d ELSE loadedDoc
         /\ loadedServers' = IF candidate.valid THEN candidate.servers ELSE loadedServers
         /\ calls' = IF candidate.valid THEN 0 ELSE calls
         /\ channelStates' = IF candidate.valid THEN <<>> ELSE channelStates
    /\ out' = <<>>
    /\ printed' = 0
    /\ raised' = FALSE
    /\ UNCHANGED <<phase, currentServer, joinedG, grantedG, lastO, codecVars, matchVars>>

\* ConfigurationService.reload(), the file holding document d
Reload ==
    /\ Running
    /\ \E d \in DocIds : \E candidate \in Loads[d] :
         /\ config' = reload(config, candidate)
         /\ ev' = [Event EXCEPT !.kind = "reload", !.doc = d]
         /\ loadedDoc' = IF candidate.valid THEN d ELSE loadedDoc
         /\ loadedServers' = IF candidate.valid THEN candidate.servers ELSE loadedServers
         /\ calls' = IF candidate.valid THEN 0 ELSE calls
    /\ out' = <<>>
    /\ printed' = 0
    /\ raised' = FALSE
    /\ UNCHANGED <<phase, currentServer, channelStates, joinedG, grantedG, lastO, codecVars, matchVars>>

\* ConfigurationService.nextServer(), called by the owner of the service
NextServer ==
    /\ phase = "constructed"
    /\ calls < MaxCalls
    /\ LET r == nextServer(config)
       IN  /\ config' = r.config
           /\ currentServer' = IF r.raised THEN currentServer ELSE r.currentServer
           /\ raised' = r.raised
           /\ calls' = IF r.raised THEN calls ELSE calls + 1
    /\ ev' = [Event EXCEPT !.kind = "nextServer"]
    /\ out' = <<>>
    /\ printed' = 0
    /\ UNCHANGED <<phase, channelStates, joinedG, grantedG, lastO, loadedDoc, loadedServers, codecVars, matchVars>>

(***************************************************************************)
(* Bot and ClientFactory.                                                  *)
(***************************************************************************)
\* Bot.__init__: the first server is taken and the connection started
BotInit ==
    /\ phase = "constructed"
    /\ calls = 0
    /\ LET r == nextServer(config)
       IN  /\ config' = r.config
           /\ currentServer' = IF r.raised THEN currentServer ELSE r.currentServer
           /\ raised' = r.raised
           /\ calls' = IF r.raised THEN calls ELSE calls + 1
           /\ phase' = IF r.raised THEN "crashed" ELSE "connecting"
           /\ printed' = IF r.raised THEN 0 ELSE 1
    /\ ev' = [Event EXCEPT !.kind = "BotInit"]
    /\ out' = <<>>
    /\ UNCHANGED <<channelStates, joinedG, grantedG, lastO, loadedDoc, loadedServers, codecVars, matchVars>>

\* the server accepted the registration: Client.signedOn
SignedOn ==
    /\ phase = "connecting"
    /\ LET r == signedOn(config, channelStates)
       IN  /\ out' = r.out
           /\ printed' = r.printed
           /\ raised' = r.raised
    /\ phase' = "online"
    /\ ev' = [Event EXCEPT !.kind = "signedOn"]
    /\ UNCHANGED <<config, currentServer, channelStates, joinedG, grantedG, lastO,
                   loadedDoc, loadedServers, calls, codecVars, matchVars>>

\* ClientFactory.clientConnectionLost: the bot is in no channel any more and
\* the connector reconnects; the service and its channel states live on
ConnectionLost ==
    /\ phase = "online"
    /\ phase' = "connecting"
    /\ joinedG' = {}
    /\ grantedG' = {}
    /\ out' = <<>>
    /\ printed' = 2
    /\ raised' = FALSE
    /\ ev' = [Event EXCEPT !.kind = "connectionLost"]
    /\ UNCHANGED <<config, currentServer, channelStates, lastO,
                   loadedDoc, loadedServers, calls, codecVars, matchVars>>

(***************************************************************************)
(* Inbound events while online.  The server reports the bot's own join     *)
(* only for a channel the bot is not in, and its part or kick only for a   *)
(* channel it is in.                                                       *)
(***************************************************************************)
Handled(r) ==
    /\ channelStates' = r.channelStates
    /\ out' = r.out
    /\ printed' = r.printed
    /\ raised' = r.raised

Join ==
    /\ phase = "online"
    /\ \E prefix \in JoinPrefixes, channel \in Chans :
         LET self == parse(prefix).ok /\ parse(prefix).nickname = nickname(config)
         IN  /\ self => channel \notin joinedG
             /\ Handled(irc_JOIN(config, channelStates, prefix, channel))
             /\ ev' = [Event EXCEPT !.kind = "JOIN", !.src = prefix, !.chan = channel]
             /\ joinedG' = IF self THEN joinedG \cup {channel} ELSE joinedG
             /\ grantedG' = IF self THEN grantedG \ {channel} ELSE grantedG
             /\ lastO' = IF self THEN (channel :> "none") @@ lastO ELSE lastO
    /\ UNCHANGED <<phase, config, currentServer, loadedDoc, loadedServers, calls, codecVars, matchVars>>

\* PART: IRCClient calls left() for the bot itself, which Client does not
\* override, and userLeft() for another user
Part ==
    /\ phase = "online"
    /\ \E prefix \in PartPrefixes, channel \in Chans :
         LET self == parse(prefix).nickname = nickname(config)
         IN  /\ self => channel \in joinedG
             /\ Handled(Result(FALSE, channelStates, <<>>, IF self THEN 0 ELSE 1))
             /\ ev' = [Event EXCEPT !.kind = "PART", !.src = prefix, !.chan = channel]
             /\ joinedG' = IF self THEN joinedG \ {channel} ELSE joinedG
             /\ grantedG' = grantedG
    /\ UNCHANGED <<phase, config, currentServer, lastO, loadedDoc, loadedServers,
                   calls, codecVars, matchVars>>

\* KICK: IRCClient calls kickedFrom() for the bot itself and userKicked()
\* for another user
Kick ==
    /\ phase = "online"
    /\ \E kickee \in KickNicks, channel \in Chans :
         LET self == kickee = nickname(config)
         IN  /\ self => channel \in joinedG
             /\ Handled(IF self THEN kickedFrom(channelStates, channel)
                                ELSE Result(FALSE, channelStates, <<>>, 1))
             /\ ev' = [Event EXCEPT !.kind = "KICK", !.target = kickee, !.chan = channel]
             /\ joinedG' = IF self THEN joinedG \ {channel} ELSE joinedG
             /\ grantedG' = IF self THEN grantedG \ {channel} ELSE grantedG
    /\ UNCHANGED <<phase, config, currentServer, lastO, loadedDoc, loadedServers,
                   calls, codecVars, matchVars>>

Mode ==
    /\ phase = "online"
    /\ \E channel \in Chans, added \in BOOLEAN, m \in ModeChanges :
         /\ Handled(modeChanged(config, channelStates, channel, added, m[1], m[2]))
         /\ ev' = [Event EXCEPT !.kind = "MODE", !.chan = channel, !.added = added,
                                !.modes = m[1], !.args = m[2]]
         /\ lastO' = IF channel \in DOMAIN lastO /\ touchesOp(m[1], m[2], nickname(config))
                     THEN [lastO EXCEPT ![channel] = IF added THEN "grant" ELSE "revoke"]
                     ELSE lastO
         /\ grantedG' = IF /\ channel \in DOMAIN channelStates
                           /\ added
                           /\ touchesOp(m[1], m[2], nickname(config))
                        THEN grantedG \cup {channel}
                        ELSE grantedG
    /\ UNCHANGED <<phase, config, currentServer, joinedG, loadedDoc, loadedServers,
                   calls, codecVars, matchVars>>

CtcpOp ==
    /\ phase = "online"
    /\ \E q \in CtcpQueries :
         /\ Handled(ctcpQuery_OP(config, channelStates, q[1], q[2], q[3]))
         /\ ev' = [Event EXCEPT !.kind = "CTCP_OP", !.src = q[1], !.target = q[2],
                                !.message = q[3]]
    /\ UNCHANGED <<phase, config, currentServer, joinedG, grantedG, lastO, loadedDoc,
                   loadedServers, calls, codecVars, matchVars>>

Privmsg ==
    /\ phase = "online"
    /\ \E q \in PrivMsgs :
         /\ \E r \in privmsg(config, channelStates, q[1], q[2], q[3]) : Handled(r)
         /\ ev' = [Event EXCEPT !.kind = "PRIVMSG", !.src = q[1], !.target = q[2],
                                !.message = q[3]]
    /\ UNCHANGED <<phase, config, currentServer, joinedG, grantedG, lastO, loadedDoc,
                   loadedServers, calls, codecVars, matchVars>>

Next ==
    \/ BotInit
    \/ Reload
    \/ SignedOn
    \/ ConnectionLost
    \/ Join
    \/ Part
    \/ Kick
    \/ Mode
    \/ CtcpOp
    \/ Privmsg

Spec == Init /\ [][Next]_vars

\* the service alone, its owner asking for one server after another
NextService ==
    \/ NextServer
    \/ Reload

SpecService == Init /\ [][NextService]_vars

(***************************************************************************)
(* The codec specification: decode applied to every document with at   *)
(* most MaxEntries entries drawn from the entry sets above.                *)
(***************************************************************************)
InitCodec ==
    /\ dPhase = "input"
    /\ \E t \in Shapes :
         \E present \in Presents(t) :
           \E botKeys \in BotKeySets(present) :
             \E sv \in [1..t[1] -> ServerEntries] :
               \E us \in [1..t[2] -> UserEntries] :
                 \E ch \in [1..t[3] -> ChannelEntries] :
                   dDoc = mkDoc(present, botKeys, sv, us, ch)
    /\ dCfg = Configuration
    /\ dEnc = <<>>
    /\ dBack = Configuration
    /\ mPhase = "idle"
    /\ mPat = <<>>
    /\ mName = <<>>
    /\ mRes = FALSE
    /\ phase = "exited"
    /\ config = Configuration
    /\ currentServer = Server("", 0, FALSE)
    /\ channelStates = <<>>
    /\ out = <<>>
    /\ printed = 0
    /\ raised = FALSE
    /\ ev = [kind |-> "none"]
    /\ joinedG = {}
    /\ grantedG = {}
    /\ lastO = <<>>
    /\ loadedDoc = 0
    /\ loadedServers = <<>>
    /\ calls = 0

Decode ==
    /\ dPhase = "input"
    /\ dCfg' \in decode(dDoc)
    /\ dPhase' = "decoded"
    /\ UNCHANGED <<dDoc, dEnc, dBack, botVars, matchVars>>

\* nextServer() on the decoded Configuration, as the service calls it
Rotate ==
    /\ dPhase = "decoded"
    /\ dCfg.valid
    /\ ~nextServer(dCfg).raised
    /\ dCfg' = nextServer(dCfg).config
    /\ UNCHANGED <<dPhase, dDoc, dEnc, dBack, botVars, matchVars>>

\* ConfigurationEncoder on a Configuration the service may hold
Encode ==
    /\ dPhase = "decoded"
    /\ dCfg.valid
    /\ dEnc' \in encode(dCfg)
    /\ dPhase' = "encoded"
    /\ UNCHANGED <<dDoc, dCfg, dBack, botVars, matchVars>>

\* the encoded document read back
DecodeBack ==
    /\ dPhase = "encoded"
    /\ dBack' \in decode(dEnc)
    /\ dPhase' = "back"
    /\ UNCHANGED <<dDoc, dCfg, dEnc, botVars, matchVars>>

NextCodec ==
    \/ Decode
    \/ Rotate
    \/ Encode
    \/ DecodeBack

SpecCodec == InitCodec /\ [][NextCodec]_vars

(***************************************************************************)
(* The matching specification: User.match applied to every mask of at most *)
(* MaxPat and every string of at most MaxName characters.                  *)
(***************************************************************************)
PatChars == {"*", "?", "[", "]", "a", "b"}

NameChars == {"a", "b", "["}

InitMatch ==
    /\ mPhase = "input"
    /\ \E n \in 0..MaxPat : mPat \in [1..n -> PatChars]
    /\ \E n \in 0..MaxName : mName \in [1..n -> NameChars]
    /\ mRes = FALSE
    /\ dPhase = "idle"
    /\ dDoc = <<>>
    /\ dCfg = Configuration
    /\ dEnc = <<>>
    /\ dBack = Configuration
    /\ phase = "exited"
    /\ config = Configuration
    /\ currentServer = NoServer
    /\ channelStates = <<>>
    /\ out = <<>>
    /\ printed = 0
    /\ raised = FALSE
    /\ ev = Event
    /\ joinedG = {}
    /\ grantedG = {}
    /\ lastO = <<>>
    /\ loadedDoc = 0
    /\ loadedServers = <<>>
    /\ calls = 0

Match ==
    /\ mPhase = "input"
    /\ mRes' = match(User("u", mPat, "user"), mName)
    /\ mPhase' = "matched"
    /\ UNCHANGED <<mPat, mName, botVars, codecVars>>

NextMatch == Match

SpecMatch == InitMatch /\ [][NextMatch]_vars

(***************************************************************************)
(* Properties.                                                             *)
(***************************************************************************)
IsOp(cmd, channel) == cmd.cmd = "MODE +o" /\ cmd.channel = channel

\* the event is a join of channel ev.chan by a user other than the bot
OtherJoined ==
    /\ ev.kind = "JOIN"
    /\ parse(ev.src).ok
    /\ parse(ev.src).nickname # nickname(config)

SelfJoined ==
    /\ ev.kind = "JOIN"
    /\ parse(ev.src).ok
    /\ parse(ev.src).nickname = nickname(config)

SelfKicked == ev.kind = "KICK" /\ ev.target = nickname(config)

\* the operator set Configuration.getChannel resolves for the name
OperatorSet(c, channel) ==
    IF getChannel(c, channel) = NoChannel THEN {} ELSE getChannel(c, channel).operators

\* C1: op gating.  For every channel c the bot has joined (c \in DOMAIN lastO)
\* for which, since that join, no 'o' mode change for the bot's nickname was
\* received or the last one was a revocation, the last event (a join, a CTCP
\* OP query, or any other) produced no outbound op command for c.
C1_OpGating ==
    \A c \in DOMAIN lastO :
        lastO[c] # "grant" => \A i \in DOMAIN out : ~IsOp(out[i], c)

\* C2: auto-op decision.  When another user with hostmask h joins a channel
\* whose ChannelState is opped, the bot issues exactly one op command, for the
\* joiner's nick on that channel, if some operator of the channel in the
\* current Configuration matches h, and none otherwise.
C2_AutoOpDecision ==
    (OtherJoined /\ hasChannelState(channelStates, ev.chan)
                 /\ channelStates[ev.chan].opped)
    => out = IF \E u \in OperatorSet(config, ev.chan) : fnmatch(ev.src, u.mask)
             THEN <<OpCmd(ev.chan, parse(ev.src).nickname)>>
             ELSE <<>>

\* C2 witness: alice joined opped #a where two operators match her: one op command
C2_Witness ==
    /\ OtherJoined
    /\ hasChannelState(channelStates, ev.chan)
    /\ channelStates[ev.chan].opped
    /\ Cardinality({u \in OperatorSet(config, ev.chan) : fnmatch(ev.src, u.mask)}) = 2
    /\ out = <<OpCmd(ev.chan, NickAlice)>>

\* C3: ChannelState tracking.  After a self-join, self-part or self-kick (any
\* join, part or kick event) the channels that have a ChannelState are exactly
\* the channels the bot is in.
C3_StatesAreJoinedChannels ==
    ev.kind \in {"JOIN", "PART", "KICK"} => DOMAIN channelStates = joinedG

\* C4: kick handling.  After the bot was kicked from a channel, that channel
\* has no ChannelState and exactly one join command, for that channel, was
\* issued; after a confirmed join of the bot the channel's state is unopped.
C4_KickHandling ==
    /\ SelfKicked =>
          /\ ~hasChannelState(channelStates, ev.chan)
          /\ out = <<JoinCmd(ev.chan)>>
    /\ SelfJoined =>
          /\ hasChannelState(channelStates, ev.chan)
          /\ ~channelStates[ev.chan].opped

\* C4 witness: the bot was kicked from a channel where it had last been opped
C4_Witness ==
    /\ SelfKicked
    /\ ev.chan \in DOMAIN lastO
    /\ lastO[ev.chan] = "grant"
    /\ out = <<JoinCmd(ev.chan)>>

\* every Configuration the document decodes to is valid
DocValid(d) == \A c \in Loads[d] : c.valid

\* C5: a reload of a document that decodes to an invalid Configuration leaves
\* the current Configuration exactly as it was, and a running service always
\* holds a valid Configuration.
C5_FailedReloadKeepsConfig ==
    /\ [][(ev'.kind = "reload" /\ ~DocValid(ev'.doc)) => config' = config]_vars
    /\ [](Running => config.valid)

\* C5 witness: online, with channel state, a reload of an invalid document happened
C5_Witness ==
    /\ ev.kind = "reload"
    /\ ~DocValid(ev.doc)
    /\ phase = "online"
    /\ channelStates # <<>>
    /\ config.valid

\* C6: a reload that rejected an invalid candidate printed at least one line
\* or issued at least one notice.
C6_FailedReloadReported ==
    (ev.kind = "reload" /\ ~DocValid(ev.doc)) => (printed > 0 \/ out # <<>>)

IsRotation(s, t) ==
    /\ Len(s) = Len(t)
    /\ \E k \in 0..Len(t) : \A i \in 1..Len(t) : s[i] = t[((i - 1 + k) % Len(t)) + 1]

\* C7: atomic swap.  The current Configuration is always one whole
\* Configuration decoded from the document loaded last with success (its
\* servers rotated, nothing else differing), and every op command issued is
\* justified by an operator of that document's policy.
C7_AtomicSwap ==
    Running =>
      /\ \E c \in Loads[loadedDoc] :
            /\ config = [c EXCEPT !.servers = config.servers]
            /\ IsRotation(config.servers, c.servers)
      /\ \A i \in DOMAIN out :
            out[i].cmd = "MODE +o" =>
              \E c \in Loads[loadedDoc] : \E j \in DOMAIN c.channels :
                 /\ c.channels[j].name = out[i].channel
                 /\ \E u \in c.channels[j].operators : fnmatch(ev.src, u.mask)

\* C7 witness: after a reload swapped in document 2, alice joined opped #a,
\* which document 1 let her operate, and was not opped
C7_Witness ==
    /\ phase = "online"
    /\ calls = 0
    /\ loadedDoc = 2
    /\ OtherJoined
    /\ ev.src = PrefixAlice
    /\ ev.chan = ChanA
    /\ hasChannelState(channelStates, ChanA)
    /\ channelStates[ChanA].opped
    /\ out = <<>>

Count(x, s) == Cardinality({i \in DOMAIN s : s[i] = x})

\* C8: round robin.  With n >= 1 servers decoded in document order, the k-th
\* nextServer() call since the load returned server ((k-1) mod n), and the
\* multiset of servers is that of the document.
C8_RoundRobin ==
    /\ calls > 0 =>
          currentServer = loadedServers[((calls - 1) % Len(loadedServers)) + 1]
    /\ Len(config.servers) = Len(loadedServers)
    /\ \A i \in DOMAIN loadedServers :
          Count(loadedServers[i], config.servers) = Count(loadedServers[i], loadedServers)

\* C8 witness: the fourth call on three servers returned the first again
C8_Witness ==
    /\ ev.kind = "nextServer"
    /\ calls = 4
    /\ Len(loadedServers) = 3
    /\ currentServer = loadedServers[1]
    /\ currentServer.hostname = "A"

MissingKeys(obj) == required_keys \ DOMAIN obj

\* C9: for a document lacking some of the four sections, decode returns an
\* invalid Configuration whose errors are exactly one message per missing
\* section, with no server, user or channel.
C9_MissingSections ==
    (dPhase = "decoded" /\ MissingKeys(dDoc) # {}) =>
      /\ ~dCfg.valid
      /\ Len(dCfg.errorMessages) = Cardinality(MissingKeys(dDoc))
      /\ {dCfg.errorMessages[i].arg : i \in DOMAIN dCfg.errorMessages} = MissingKeys(dDoc)
      /\ \A i \in DOMAIN dCfg.errorMessages :
            dCfg.errorMessages[i].text = "Configuration file lacks key."
      /\ dCfg.servers = <<>>
      /\ dCfg.channels = <<>>
      /\ DOMAIN dCfg.userRegistry = {}

\* C9 witness: a document with "bot" and entries, lacking two sections
C9_Witness ==
    /\ dPhase = "decoded"
    /\ "bot" \in DOMAIN dDoc
    /\ Cardinality(MissingKeys(dDoc)) = 2
    /\ Len(dCfg.errorMessages) = 2
    /\ \E k \in DOMAIN dDoc : k # "bot" /\ Len(dDoc[k]) > 0

CountText(t, msgs) == Cardinality({i \in DOMAIN msgs : msgs[i].text = t})

Lacking(key, entries) == {i \in DOMAIN entries : key \notin DOMAIN entries[i]}

WellFormedDoc(obj) ==
    /\ required_keys \subseteq DOMAIN obj
    /\ BotKeys \subseteq DOMAIN obj.bot

\* C10: for a document with the four sections and the three bot keys, decode
\* returns a valid Configuration without errors; an entry lacking its required
\* key (server: hostname; user: name, mask; channel: name) is not in the
\* result and has its warning.
C10_EntryProblemsOnlyWarn ==
    (dPhase = "decoded" /\ WellFormedDoc(dDoc)) =>
      /\ dCfg.valid
      /\ dCfg.errorMessages = <<>>
      /\ Len(dCfg.servers) = Len(dDoc.servers) - Cardinality(Lacking("hostname", dDoc.servers))
      /\ Len(dCfg.channels) = Len(dDoc.channels) - Cardinality(Lacking("name", dDoc.channels))
      /\ \A n \in DOMAIN dCfg.userRegistry :
            \E i \in DOMAIN dDoc.users :
               /\ {"name", "mask"} \subseteq DOMAIN dDoc.users[i]
               /\ dDoc.users[i].name = n
               /\ dDoc.users[i].mask = dCfg.userRegistry[n].mask
      /\ CountText("Ignored server-entry due to lack of hostname.", dCfg.warningMessages)
            = Cardinality(Lacking("hostname", dDoc.servers))
      /\ CountText("Ignored channel-entry due to lack of name.", dCfg.warningMessages)
            = Cardinality(Lacking("name", dDoc.channels))
      /\ CountText("Ignored user-entry due to lack of name.", dCfg.warningMessages)
            = Cardinality(Lacking("name", dDoc.users))
      /\ CountText("Ignored user-entry due to lack of mask.", dCfg.warningMessages)
            = Cardinality(Lacking("mask", dDoc.users) \ Lacking("name", dDoc.users))

\* C10 witness: a well-formed document with a server, a user and a channel
\* entry that each lack a required key
C10_Witness ==
    /\ dPhase = "decoded"
    /\ WellFormedDoc(dDoc)
    /\ Lacking("hostname", dDoc.servers) # {}
    /\ Lacking("mask", dDoc.users) \ Lacking("name", dDoc.users) # {}
    /\ Lacking("name", dDoc.channels) # {}
    /\ dCfg.valid
    /\ Len(dCfg.warningMessages) = 3

\* the user entries of the document that decode reaches the mask check with
Named(obj, n) ==
    {i \in DOMAIN obj.users :
        {"name", "mask"} \subseteq DOMAIN obj.users[i] /\ obj.users[i].name = n}

\* no registered user and no channel operator of c has a universal mask
NoUniversalMask(c) ==
    /\ \A n \in DOMAIN c.userRegistry : c.userRegistry[n].mask \notin invalid_user_masks
    /\ \A i \in DOMAIN c.channels :
          \A o \in c.channels[i].operators : o.mask \notin invalid_user_masks

\* C11: universal-mask guard.  Every user entry (with name and mask) whose
\* mask is "*", "*@*", "*!*" or "*!*@*" has its "Insecure mask" warning and
\* adds no user; no registered user and no channel operator of a decoded
\* Configuration, nor of the current one, has such a mask; a name all of whose
\* entries have such a mask is not registered and operator of no channel.
C11_UniversalMaskGuard ==
    /\ NoUniversalMask(config)
    /\ dPhase = "decoded" => NoUniversalMask(dCfg)
    /\ (dPhase = "decoded" /\ WellFormedDoc(dDoc)) =>
          /\ CountText("Insecure mask for user", dCfg.warningMessages)
                = Cardinality({i \in DOMAIN dDoc.users :
                      /\ {"name", "mask"} \subseteq DOMAIN dDoc.users[i]
                      /\ dDoc.users[i].mask \in invalid_user_masks})
          /\ \A i \in DOMAIN dDoc.users :
                ("name" \in DOMAIN dDoc.users[i]
                    /\ \A j \in Named(dDoc, dDoc.users[i].name) :
                          dDoc.users[j].mask \in invalid_user_masks)
                => /\ dDoc.users[i].name \notin DOMAIN dCfg.userRegistry
                   /\ \A k \in DOMAIN dCfg.channels :
                         \A o \in dCfg.channels[k].operators : o.name # dDoc.users[i].name

\* C11 witness: "alice" has a universal mask in her only entry, with a class
\* or without, and a channel names her as operator: the channel has no operator
C11_Witness ==
    /\ dPhase = "decoded"
    /\ WellFormedDoc(dDoc)
    /\ Named(dDoc, "alice") # {}
    /\ \A j \in Named(dDoc, "alice") : dDoc.users[j].mask \in invalid_user_masks
    /\ \E k \in DOMAIN dDoc.channels :
          /\ {"name", "operators"} \subseteq DOMAIN dDoc.channels[k]
          /\ dDoc.channels[k].operators = <<"alice">>
    /\ Len(dCfg.channels) = 1
    /\ dCfg.channels[1].operators = {}
    /\ CountText("Unknown operator", dCfg.warningMessages) = 1

\* the policy a Configuration holds, as sets
UsersOf(c) == getUsers(c)

ServersOf(c) == {c.servers[i] : i \in DOMAIN c.servers}

ChannelsOf(c) ==
    {[name |-> c.channels[i].name,
      operators |-> {o.name : o \in c.channels[i].operators}] : i \in DOMAIN c.channels}

\* C12: codec round trip.  A valid Configuration produced by decode, its
\* servers rotated by nextServer() or not, encoded and decoded again gives a
\* valid Configuration with the same set of users (name, mask, class), of
\* servers (hostname, port, secure flag) and of channels (name, operator names).
C12_RoundTrip ==
    dPhase = "back" =>
      /\ dBack.valid
      /\ UsersOf(dBack) = UsersOf(dCfg)
      /\ ServersOf(dBack) = ServersOf(dCfg)
      /\ ChannelsOf(dBack) = ChannelsOf(dCfg)

\* C12 witness: a secure server with a port, an admin user and a channel she
\* operates went through encode and decode
C12_Witness ==
    /\ dPhase = "back"
    /\ \E s \in ServersOf(dCfg) : s.ssl /\ s.port # DefaultPort
    /\ \E u \in UsersOf(dCfg) : u.userClass = "admin"
    /\ \E ch \in ChannelsOf(dCfg) : ch.operators # {}
    /\ ChannelsOf(dBack) = ChannelsOf(dCfg)

\* the last event was a join, a private message or a CTCP OP query whose
\* source does not parse as nick!user@host
UnparseableSource(e) ==
    e.kind \in {"JOIN", "PRIVMSG", "CTCP_OP"} /\ ~parse(e.src).ok

\* C13: unparseable source is ignored.  A join, private message or CTCP OP
\* query whose source prefix does not parse ends without an exception, leaves
\* every ChannelState as it was and issues no outbound command.
C13_UnparseableIgnored ==
    [][UnparseableSource(ev') =>
          (~raised' /\ out' = <<>> /\ channelStates' = channelStates)]_vars

\* the channel names the Configuration lists
Listed(c) == {c.channels[i].name : i \in DOMAIN c.channels}

\* the parseable sources of the events
Hostmasks == {parse(p) : p \in {q \in JoinPrefixes : parse(q).ok}}

\* C14: unknown channel yields no candidates.  For every channel name the
\* current Configuration does not list, findOperatorCandidates is empty for
\* every hostmask, and no op command is ever issued for such a channel.
C14_UnknownChannelNoCandidates ==
    /\ \A channel \in Chans \ Listed(config) : \A h \in Hostmasks :
          findOperatorCandidates(config, h, channel) = {}
    /\ \A i \in DOMAIN out :
          out[i].cmd = "MODE +o" => out[i].channel \in Listed(config)

\* C14 witness: the bot is opped on a channel the Configuration does not
\* list, a user matching registered users joined it, and no command was issued
C14_Witness ==
    /\ OtherJoined
    /\ ev.chan \notin Listed(config)
    /\ hasChannelState(channelStates, ev.chan)
    /\ channelStates[ev.chan].opped
    /\ Cardinality(findMatches(config, parse(ev.src))) = 2
    /\ out = <<>>

\* glob matching without character classes: '*' any run, '?' one character,
\* every other character itself
RECURSIVE GlobMatch(_, _)
GlobMatch(name, pat) ==
    IF pat = <<>> THEN name = <<>>
    ELSE IF Head(pat) = "*"
    THEN \E k \in 0..Len(name) : GlobMatch(SubSeq(name, k+1, Len(name)), Tail(pat))
    ELSE IF Head(pat) = "?"
    THEN name # <<>> /\ GlobMatch(Tail(name), Tail(pat))
    ELSE name # <<>> /\ Head(name) = Head(pat) /\ GlobMatch(Tail(name), Tail(pat))

\* C15: pattern matching semantics.  User.match(string) is true exactly when
\* the whole string matches the mask with '*' for any run of characters, '?'
\* for one character and every other character, '[' and ']' included, for
\* itself.
C15_PatternSemantics ==
    mPhase = "matched" => (mRes <=> GlobMatch(mName, mPat))

\* a mode-change event leaves alone the channels other than its own, and the
\* set of channels that have a ChannelState
ModeFrame ==
    /\ DOMAIN channelStates' = DOMAIN channelStates
    /\ \A c \in DOMAIN channelStates \ {ev'.chan} : channelStates'[c] = channelStates[c]

\* C16: op-flag transition function.  A mode-change event on a channel that
\* has a ChannelState leaves its opped flag true if it grants 'o' to the bot's
\* nickname, false if it revokes 'o' from the bot's nickname, and unchanged
\* otherwise; it changes no other ChannelState and creates none.
C16_OpFlagTransition ==
    [][ev'.kind = "MODE" =>
          /\ ModeFrame
          /\ hasChannelState(channelStates, ev'.chan) =>
                channelStates'[ev'.chan].opped =
                    IF touchesOp(ev'.modes, ev'.args, nickname(config))
                    THEN ev'.added
                    ELSE channelStates[ev'.chan].opped]_vars

\* C17: nextServer() return value.  A call moves the front server to the back
\* of the sequence and returns the server that is at the front after that.
C17_ReturnsNewHead ==
    [][(ev'.kind = "nextServer" /\ ~raised') =>
          /\ config'.servers = Append(Tail(config.servers), Head(config.servers))
          /\ currentServer' = Head(config'.servers)]_vars

\* C18: reload does not touch runtime channel state.  A reload, successful
\* or not, leaves every ChannelState as it was; the ChannelStates change only
\* at a join or kick of the bot itself and at a mode change with 'o' for the
\* bot's nickname.
C18_ReloadKeepsChannelStates ==
    [][/\ ev'.kind = "reload" => channelStates' = channelStates
       /\ channelStates' # channelStates =>
             \/ /\ ev'.kind = "JOIN"
                /\ parse(ev'.src).ok
                /\ parse(ev'.src).nickname = nickname(config)
             \/ /\ ev'.kind = "KICK"
                /\ ev'.target = nickname(config)
             \/ /\ ev'.kind = "MODE"
                /\ touchesOp(ev'.modes, ev'.args, nickname(config))]_vars

\* C18 witness: a reload swapped in document 2, which lists #b and not #a,
\* while the bot is opped on #a and has no state for #b
C18_Witness ==
    /\ ev.kind = "reload"
    /\ ev.doc = 2
    /\ loadedDoc = 2
    /\ ChanA \notin Listed(config)
    /\ ChanB \in Listed(config)
    /\ hasChannelState(channelStates, ChanA)
    /\ channelStates[ChanA].opped
    /\ ~hasChannelState(channelStates, ChanB)

\* every operator of every channel of c is the registered user of its name
OperatorsRegistered(c) ==
    \A i \in DOMAIN c.channels : \A o \in c.channels[i].operators :
        o.name \in DOMAIN c.userRegistry /\ c.userRegistry[o.name] = o

HasName(entry) == "name" \in DOMAIN entry

\* the operator names a channel entry lists
OperatorNames(entry) ==
    IF "operators" \in DOMAIN entry THEN entry.operators ELSE <<>>

\* the listed operator names of the named channel entries that c has no user for
UnknownReferences(obj, c) ==
    {<<i, j>> \in (DOMAIN obj.channels) \X (1..MaxEntries + 1) :
        /\ HasName(obj.channels[i])
        /\ j \in DOMAIN OperatorNames(obj.channels[i])
        /\ OperatorNames(obj.channels[i])[j] \notin DOMAIN c.userRegistry}

\* C19: operator references are closed over the user registry.  In every
\* decoded Configuration, and in the current one, each operator of a channel
\* is the user the registry holds under that name; the channel of a named
\* entry is added with exactly the listed operators that are registered, and
\* every listed name that is not registered has its warning.
C19_OperatorsClosed ==
    /\ OperatorsRegistered(config)
    /\ dPhase = "decoded" => OperatorsRegistered(dCfg)
    /\ (dPhase = "decoded" /\ WellFormedDoc(dDoc)) =>
          LET named == SelectSeq(dDoc.channels, HasName)
          IN  /\ Len(dCfg.channels) = Len(named)
              /\ \A i \in DOMAIN named :
                    /\ dCfg.channels[i].name = named[i].name
                    /\ dCfg.channels[i].operators =
                          {dCfg.userRegistry[n] :
                              n \in {OperatorNames(named[i])[j] :
                                        j \in DOMAIN OperatorNames(named[i])}
                                    \cap DOMAIN dCfg.userRegistry}
              /\ CountText("Unknown operator", dCfg.warningMessages)
                    = Cardinality(UnknownReferences(dDoc, dCfg))

\* C19 witness: a channel lists "bob", who is registered, and "zed", who is
\* not: the channel is added with bob alone and one warning
C19_Witness ==
    /\ dPhase = "decoded"
    /\ WellFormedDoc(dDoc)
    /\ Len(dCfg.channels) = 1
    /\ "bob" \in DOMAIN dCfg.userRegistry
    /\ dCfg.channels[1].operators = {dCfg.userRegistry["bob"]}
    /\ CountText("Unknown operator", dCfg.warningMessages) = 1
    /\ \E i \in DOMAIN dCfg.warningMessages :
          dCfg.warningMessages[i] = Msg("Unknown operator", "zed")

\* no two Channel entries of c have the same name
UniqueChannelNames(c) ==
    \A i, j \in DOMAIN c.channels : c.channels[i].name = c.channels[j].name => i = j

\* C20: channel names are unique in a Configuration.  No decoded
\* Configuration, nor the current one, has two Channel entries of the same
\* name, so the operator set getChannel resolves for a name is that of the
\* only Channel of that name.
C20_ChannelNamesUnique ==
    /\ UniqueChannelNames(config)
    /\ dPhase = "decoded" => UniqueChannelNames(dCfg)

\* the op commands a join of channel by the user src would bring: one, if the
\* channel's state is opped and an operator of the channel matches src
JoinDecision(c, states, src, channel) ==
    IF /\ hasChannelState(states, channel)
       /\ states[channel].opped
       /\ \E u \in OperatorSet(c, channel) : fnmatch(src, u.mask)
    THEN <<OpCmd(channel, parse(src).nickname)>>
    ELSE <<>>

RECURSIVE JoinDecisions(_, _, _, _)
JoinDecisions(c, states, src, channels) ==
    IF channels = <<>> THEN <<>>
    ELSE JoinDecision(c, states, src, Head(channels))
            \o JoinDecisions(c, states, src, Tail(channels))

\* C21: CTCP OP target restriction.  A CTCP OP query changes no ChannelState;
\* one whose target is not the bot's nickname issues no command, whatever it
\* names and whoever sent it; one addressed to the bot by a parseable source
\* issues, for each channel name of its message in turn, what a join of that
\* channel by the sender would issue.
C21_CtcpTargetRestriction ==
    [][ev'.kind = "CTCP_OP" =>
          /\ channelStates' = channelStates
          /\ ev'.target # nickname(config) => out' = <<>>
          /\ (ev'.target = nickname(config) /\ ev'.message # NoArg /\ parse(ev'.src).ok) =>
                out' = JoinDecisions(config, channelStates, ev'.src,
                                     split(ev'.message, " "))]_vars

\* C21 witness: alice, operator of #a, sent a query naming #a to the channel
\* instead of the bot while the bot is opped on #a: nothing was issued
C21_Witness ==
    /\ ev.kind = "CTCP_OP"
    /\ ev.target # nickname(config)
    /\ ev.src = PrefixAlice
    /\ hasChannelState(channelStates, ChanA)
    /\ channelStates[ChanA].opped
    /\ JoinDecisions(config, channelStates, ev.src, split(ev.message, " "))
          = <<OpCmd(ChanA, NickAlice)>>
    /\ out = <<>>

\* C22: no op command for a channel the bot is not in.  Every op command
\* issued is for a channel the bot has joined and has not left by a part, a
\* kick or the loss of the connection since.
C22_OpOnlyWhereJoined ==
    \A i \in DOMAIN out : out[i].cmd = "MODE +o" => out[i].channel \in joinedG

\* C23: operator state does not survive a connection loss.  Every op command
\* issued is for a channel for which a mode change granting 'o' to the bot was
\* received on the current connection: none is issued on the basis of an opped
\* flag recorded on a previous connection.
C23_OpStateNotKeptOverReconnect ==
    \A i \in DOMAIN out : out[i].cmd = "MODE +o" => out[i].channel \in grantedG
====
